---- MODULE Spec2Model ----
(***************************************************************************)
(* Loop Methods: the playback handler of loop_methods/__init__.py and the  *)
(* host transport it drives (screen animation timer, scene frame range).   *)
(***************************************************************************)
EXTENDS Integers, Sequences, FiniteSets, TLC

\* Frames of the modelled timeline are 0..MaxFrame.
MaxFrame == 3

\* The ranges of the ping-pong round trips lie within 0..MaxRoundTripFrame.
MaxRoundTripFrame == 6

\* The host hands out preview numbers from one of MaxIconBase bases.
MaxIconBase == 2

\* The host follows a frame set inside a handler with at most MaxNested notifications.
MaxNested == 2

\* At most MaxPreviews preview collections are alive in the host.
MaxPreviews == 3

Frames == 0..MaxFrame

\* The playable ranges: frame_start <= frame_end.
Ranges == {r \in Frames \X Frames : r[1] <= r[2]}

(***************************************************************************)
(* State                                                                   *)
(***************************************************************************)

VARIABLES
    playback_mode,   \* scene.loop_methods_settings.playback_mode
    frame_current,   \* scene.frame_current
    frame_start,     \* scene.frame_start
    frame_end,       \* scene.frame_end
    animtimer,       \* the screen's animation timer: <<>> when stopped, else
                     \* <<[reverse, sfra]>>: direction and the frame playback started at
    issued,          \* the transport commands the handler issued in the last notification
    ev,              \* the last step: the notification the handler saw (and whether
                     \* the step before it changed the mode), the selection made, or
                     \* NoEvent
    held,            \* history: the handler cancelled playback at frame_end in a mode other
                     \* than ping-pong, and frame_current has equalled frame_end ever since
    icon_collections, \* the module's icon_collections dict: key -> preview collection
    release,         \* a run of release.py: its arguments, the files it reads and
                     \* writes, and where main() stands; NoRelease when none runs
    registration     \* what register() and unregister() leave in the host: the classes,
                     \* the Scene property, the header, the frame_change_pre list, the
                     \* live preview collections, and the last call with what it raised

vars == <<playback_mode, frame_current, frame_start, frame_end, animtimer, issued, ev, held,
          icon_collections, release, registration>>

\* The state of the add-on inside the host.
addon_vars == <<playback_mode, frame_current, frame_start, frame_end, animtimer, issued, ev,
                held, icon_collections, registration>>

NoRelease == [pc |-> "none"]

(***************************************************************************)
(* Mode catalog                                                            *)
(***************************************************************************)

PBLM_method_Loop == "PBLM_method_Loop"

PBLM_method_stop == "PBLM_method_stop"

PBLM_method_restore == "PBLM_method_restore"

PBLM_method_start == "PBLM_method_start"

PBLM_method_ping_pong == "PBLM_method_ping_pong"

\* The icons load_icons loads, in its order.
IconNames ==
    <<"PBLM_icon_Loop", "PBLM_icon_ping_pong", "PBLM_icon_restore", "PBLM_icon_start",
      "PBLM_icon_stop">>

\* A new preview collection with the five icons loaded; the host numbers the
\* previews it creates, here from base * Len(IconNames) + 1 on.
new_pcoll(base) ==
    [n \in {IconNames[k] : k \in DOMAIN IconNames} |->
        [icon_id |-> base * Len(IconNames)
                       + CHOOSE k \in DOMAIN IconNames : IconNames[k] = n]]

\* icon_collections.get("main", {})
main_icons ==
    IF "main" \in DOMAIN icon_collections THEN icon_collections["main"] ELSE <<>>

\* The icon field of an item: the icon's id, or "" if the icon is not loaded.
icon_id_or_empty(icons, name) ==
    IF name \in DOMAIN icons THEN icons[name].icon_id ELSE ""

\* The list get_playback_modes returns, given the loaded icons.
playback_mode_items(icons) ==
    << [id |-> PBLM_method_Loop, name |-> "Loop (default)",
        description |-> "Standard looping playback (default)",
        icon |-> icon_id_or_empty(icons, "PBLM_icon_Loop"), index |-> 0],
       [id |-> PBLM_method_stop, name |-> "Play Once & Stop",
        description |-> "Play once and stop at the End Frame.",
        icon |-> icon_id_or_empty(icons, "PBLM_icon_stop"), index |-> 1],
       [id |-> PBLM_method_restore, name |-> "Play Once & Restore",
        description |-> "Play once and jump back to the frame you started from.",
        icon |-> icon_id_or_empty(icons, "PBLM_icon_restore"), index |-> 2],
       [id |-> PBLM_method_start, name |-> "Play Once & Jump Start",
        description |-> "Play once and jump back to the Start Frame.",
        icon |-> icon_id_or_empty(icons, "PBLM_icon_start"), index |-> 3],
       [id |-> PBLM_method_ping_pong, name |-> "Ping-Pong",
        description |-> "Loop back and forth between the Start and end Frames",
        icon |-> icon_id_or_empty(icons, "PBLM_icon_ping_pong"), index |-> 4] >>

\* The list given up when no icons are loaded.
get_playback_modes_needing_icons ==
    IF main_icons = <<>> THEN <<>> ELSE playback_mode_items(main_icons)

\* The items of the playback_mode enum, as the property system asks for them.
get_playback_modes == playback_mode_items(main_icons)

ModeIds == {get_playback_modes[i].id : i \in DOMAIN get_playback_modes}

\* An identifier that is no item of the enum (a stale selection).
StaleId == "PBLM_method_unknown"

\* The enum property taking any identifier, an item or not.
enum_accepts_any(id) == TRUE

\* The enum property's check of an assigned identifier against its items.
enum_has_item(id) == id \in ModeIds

\* Assigning id to playback_mode, whose value is current: an item becomes the
\* value; anything else is rejected and the value stays.
set_playback_mode(current, id) ==
    IF enum_has_item(id)
    THEN [value |-> id, result |-> "ok"]
    ELSE [value |-> current, result |-> "InvalidModeSelection"]

\* The host state the handler reads and its commands act on.
Host == [frame |-> frame_current, start |-> frame_start, end |-> frame_end,
         timer |-> animtimer]

\* bpy.context.screen.is_animation_playing
is_animation_playing(h) == h.timer # <<>>

NoEvent == [kind |-> "none"]

(***************************************************************************)
(* Transport commands, as the handler issues them                          *)
(***************************************************************************)

Cancel(restore_frame) == [op |-> "animation_cancel", restore_frame |-> restore_frame]

Play(reverse) == [op |-> "animation_play", reverse |-> reverse]

SetFrame(f) == [op |-> "frame_current", value |-> f]

\* screen.animation_cancel: without a running timer it does nothing; otherwise
\* it removes the timer and, with restore_frame, puts the frame back where
\* playback started.
animation_cancel(h, restore_frame) ==
    IF ~is_animation_playing(h) THEN h
    ELSE [h EXCEPT !.timer = <<>>,
                   !.frame = IF restore_frame THEN h.timer[1].sfra ELSE h.frame]

\* screen.animation_play: a toggle; with a running timer it stops playback,
\* otherwise it starts a timer in the given direction and records the frame.
animation_play(h, reverse) ==
    IF is_animation_playing(h) THEN [h EXCEPT !.timer = <<>>]
    ELSE [h EXCEPT !.timer = <<[reverse |-> reverse, sfra |-> h.frame]>>]

\* scene.frame_current = f
set_frame_current(h, f) == [h EXCEPT !.frame = f]

(***************************************************************************)
(* The handler                                                             *)
(***************************************************************************)

\* The guard left out: the handler goes on whether or not playback runs.
triggers_always(h) == TRUE

\* The guard at the top of the handler: it goes on only during playback.
triggers_on_playback(h) == is_animation_playing(h)

\* The stop condition comparing with the start frame.
at_stop_on_start_frame(h, mode) == mode = PBLM_method_stop /\ h.frame = h.start

\* The stop condition taken for every mode no other branch names.
at_stop_by_default(h, mode) ==
    /\ mode \notin {PBLM_method_restore, PBLM_method_start, PBLM_method_ping_pong}
    /\ h.frame = h.end

\* The ping-pong condition looking at the end frame only.
at_ping_pong_end_only(h, mode) == mode = PBLM_method_ping_pong /\ h.frame = h.end

\* The restore condition taking every frame from the end frame on.
at_restore_from_end_on(h, mode) == mode = PBLM_method_restore /\ h.frame >= h.end

\* The start condition not looking at the mode.
at_start_any_mode(h, mode) == h.frame = h.end

\* The conditions of the if/elif chain, in order.
at_stop(h, mode) == mode = PBLM_method_stop /\ h.frame = h.end

at_restore(h, mode) == mode = PBLM_method_restore /\ h.frame = h.end

at_start(h, mode) == mode = PBLM_method_start /\ h.frame = h.end

at_ping_pong(h, mode) == mode = PBLM_method_ping_pong /\ h.frame \in {h.end, h.start}

\* The stop branch asking the host to restore the frame.
do_stop_restoring(h) ==
    [host |-> animation_cancel(h, TRUE), cmds |-> <<Cancel(TRUE)>>]

\* The restore branch not asking the host to restore the frame.
do_restore_not_restoring(h) ==
    [host |-> animation_cancel(h, FALSE), cmds |-> <<Cancel(FALSE)>>]

\* The start branch without the jump to the start frame.
do_start_no_jump(h) ==
    [host |-> animation_cancel(h, FALSE), cmds |-> <<Cancel(FALSE)>>]

\* The ping-pong branch calling play before cancel.
do_ping_pong_play_first(h) ==
    LET reverse == (h.frame = h.end)
        h1 == animation_play(h, reverse)
    IN  [host |-> animation_cancel(h1, FALSE),
         cmds |-> <<Play(reverse), Cancel(FALSE)>>]

\* The stop branch without the cancel: playback goes on.
do_stop_without_cancel(h) == [host |-> h, cmds |-> <<>>]

\* The bodies of the branches: the host state each leaves and the commands it
\* issues, in order.
do_stop(h) ==
    [host |-> animation_cancel(h, FALSE), cmds |-> <<Cancel(FALSE)>>]

do_restore(h) ==
    [host |-> animation_cancel(h, TRUE), cmds |-> <<Cancel(TRUE)>>]

do_start(h) ==
    LET h1 == animation_cancel(h, FALSE)
    IN  [host |-> set_frame_current(h1, h1.start),
         cmds |-> <<Cancel(FALSE), SetFrame(h1.start)>>]

do_ping_pong(h) ==
    LET h1 == animation_cancel(h, FALSE)
        reverse == (h1.frame = h1.end)
    IN  [host |-> animation_play(h1, reverse),
         cmds |-> <<Cancel(FALSE), Play(reverse)>>]

\* The handler run on host state h with the selected mode.
loop_methods_playback_handler(h, mode) ==
    IF ~triggers_on_playback(h) THEN [host |-> h, cmds |-> <<>>]
    ELSE IF at_stop(h, mode) THEN do_stop(h)
    ELSE IF at_restore(h, mode) THEN do_restore(h)
    ELSE IF at_start(h, mode) THEN do_start(h)
    ELSE IF at_ping_pong(h, mode) THEN do_ping_pong(h)
    ELSE [host |-> h, cmds |-> <<>>]

\* A command that sets the frame: the host answers it with a frame-change
\* notification of its own, which runs the handlers of frame_change_pre again.
changes_frame(cmd) ==
    \/ cmd.op = "frame_current"
    \/ cmd.op = "animation_cancel" /\ cmd.restore_frame

\* The entry of the handler in bpy.app.handlers.frame_change_pre, and an entry of
\* another add-on.
HandlerEntry == "loop_methods_playback_handler"

OtherEntry == "other_handler"

\* One entry of the list called: an entry of the handler runs it on the host state
\* the entries before it left. runs counts the runs of the handler.
run_entry(entry, done, mode) ==
    IF entry = HandlerEntry
    THEN [host |-> loop_methods_playback_handler(done.host, mode).host,
          cmds |-> done.cmds \o loop_methods_playback_handler(done.host, mode).cmds,
          runs |-> done.runs + 1]
    ELSE done

\* The host calls the entries of the list in order.
RECURSIVE run_entries(_, _, _)
run_entries(handlers, done, mode) ==
    IF handlers = <<>> THEN done
    ELSE run_entries(Tail(handlers), run_entry(Head(handlers), done, mode), mode)

run_handlers(handlers, h, mode) ==
    run_entries(handlers, [host |-> h, cmds |-> <<>>, runs |-> 0], mode)

\* frame_change_pre on host state h: the subscribed handlers run; when the frame was
\* set, the host delivers the notification that follows from it, at most MaxNested
\* deep. cmds are the commands of this notification, nested those of the ones that
\* followed.
RECURSIVE frame_change_pre(_, _, _, _)
frame_change_pre(handlers, h, mode, depth) ==
    LET r == run_handlers(handlers, h, mode)
    IN  IF depth < MaxNested /\ \E i \in DOMAIN r.cmds : changes_frame(r.cmds[i])
        THEN LET n == frame_change_pre(handlers, r.host, mode, depth + 1)
             IN  [host |-> n.host, cmds |-> r.cmds, followed |-> TRUE,
                  nested |-> n.cmds \o n.nested, runs |-> r.runs]
        ELSE [host |-> r.host, cmds |-> r.cmds, followed |-> FALSE, nested |-> <<>>,
              runs |-> r.runs]

\* A frame-change notification of the given kind on host state h: the subscribed
\* handlers run, and the step records what the handler saw and what it issued.
Notify(kind, h) ==
    \E r \in {frame_change_pre(registration.frame_change_pre, h, playback_mode, 0)} :
        /\ frame_current' = r.host.frame
        /\ frame_start' = r.host.start
        /\ frame_end' = r.host.end
        /\ animtimer' = r.host.timer
        /\ issued' = r.cmds \o r.nested
        /\ ev' = [kind |-> kind, mode |-> playback_mode, frame |-> h.frame,
                  start |-> h.start, end |-> h.end, timer |-> h.timer,
                  followed |-> r.followed, nested |-> r.nested,
                  changed |-> ev.kind = "set_mode" /\ ev.changed,
                  runs |-> r.runs]
        /\ held' = /\ r.host.frame = r.host.end
                    /\ \/ held /\ h.frame = h.end
                       \/ /\ playback_mode # PBLM_method_ping_pong
                          /\ h.frame = h.end
                          /\ \E i \in DOMAIN issued' : issued'[i].op = "animation_cancel"
        /\ UNCHANGED <<playback_mode, icon_collections, release, registration>>

(***************************************************************************)
(* Host and user steps                                                     *)
(***************************************************************************)

\* The frame the animation timer steps to: one frame in the timer's direction,
\* jumping to the other end of the range when it runs past an end.
NextFrame(h) ==
    IF h.timer[1].reverse
    THEN IF h.frame - 1 < h.start THEN h.end ELSE h.frame - 1
    ELSE IF h.frame + 1 > h.end THEN h.start ELSE h.frame + 1

\* A timer step during playback: the frame advances and frame_change_pre fires.
Tick ==
    /\ is_animation_playing(Host)
    /\ Notify("tick", set_frame_current(Host, NextFrame(Host)))

\* The user (or a script) sets the frame, playing or not: frame_change_pre fires.
Scrub ==
    \E f \in Frames : Notify("scrub", set_frame_current(Host, f))

\* The user presses play (forward or reverse): starts playback, or stops it.
TogglePlayback ==
    \E reverse \in BOOLEAN :
        /\ animtimer' = animation_play(Host, reverse).timer
        /\ issued' = <<>>
        /\ ev' = NoEvent
        /\ UNCHANGED <<playback_mode, frame_current, frame_start, frame_end, icon_collections, release, registration>>
        /\ held' = (held /\ frame_current' = frame_end')

\* The user cancels playback (Esc), restoring the frame or not.
CancelPlayback ==
    \E restore_frame \in BOOLEAN :
        /\ is_animation_playing(Host)
        /\ animtimer' = <<>>
        /\ frame_current' = animation_cancel(Host, restore_frame).frame
        /\ issued' = <<>>
        /\ ev' = NoEvent
        /\ UNCHANGED <<playback_mode, frame_start, frame_end, icon_collections, release, registration>>
        /\ held' = (held /\ frame_current' = frame_end')

\* The user picks a mode in the dropdown, or a script assigns an identifier.
SetMode ==
    \E id \in ModeIds \cup {StaleId} :
        /\ playback_mode' = set_playback_mode(playback_mode, id).value
        /\ issued' = <<>>
        /\ ev' = [kind |-> "set_mode", id |-> id,
                  result |-> set_playback_mode(playback_mode, id).result,
                  changed |-> set_playback_mode(playback_mode, id).value # playback_mode]
        /\ UNCHANGED <<frame_current, frame_start, frame_end, animtimer, icon_collections, release, registration>>
        /\ held' = (held /\ frame_current' = frame_end')

\* The user changes the playable range.
SetRange ==
    \E r \in Ranges :
        /\ frame_start' = r[1]
        /\ frame_end' = r[2]
        /\ issued' = <<>>
        /\ ev' = NoEvent
        /\ UNCHANGED <<playback_mode, frame_current, animtimer, icon_collections, release, registration>>
        /\ held' = (held /\ frame_current' = frame_end')

\* load_icons: a new preview collection becomes icon_collections["main"].
load_icons(collections, base) ==
    [k \in DOMAIN collections \cup {"main"} |->
        IF k = "main" THEN new_pcoll(base) ELSE collections[k]]

\* unload_icons: every collection is removed and the dict cleared.
unload_icons(collections) == <<>>

\* The icons are loaded (registration, or a reload of the add-on's assets).
LoadIcons ==
    \E base \in 1..MaxIconBase :
        /\ icon_collections' = load_icons(icon_collections, base)
        /\ issued' = <<>>
        /\ ev' = NoEvent
        /\ UNCHANGED <<playback_mode, frame_current, frame_start, frame_end, animtimer, release, registration>>
        /\ held' = (held /\ frame_current' = frame_end')

\* The icons are unloaded.
UnloadIcons ==
    /\ icon_collections' = unload_icons(icon_collections)
    /\ issued' = <<>>
    /\ ev' = NoEvent
    /\ UNCHANGED <<playback_mode, frame_current, frame_start, frame_end, animtimer, release, registration>>
    /\ held' = (held /\ frame_current' = frame_end')

(***************************************************************************)
(* register() and unregister()                                             *)
(***************************************************************************)

\* The host before the add-on is registered, with the handlers of other add-ons.
CleanHost(others) ==
    [classes |-> FALSE, scene_property |-> FALSE, header |-> 0,
     frame_change_pre |-> others, previews |-> 0, last |-> "none", raised |-> ""]

Entries(handlers) == {handlers[i] : i \in DOMAIN handlers}

\* The list without its first entry e (list.remove).
RECURSIVE list_remove(_, _)
list_remove(handlers, e) ==
    IF handlers = <<>> THEN <<>>
    ELSE IF Head(handlers) = e THEN Tail(handlers)
    ELSE <<Head(handlers)>> \o list_remove(Tail(handlers), e)

\* register: the handler is appended unless it is in the list.
append_handler(handlers) ==
    IF HandlerEntry \notin Entries(handlers)
    THEN Append(handlers, HandlerEntry)
    ELSE handlers

\* unregister: the handler left in the list.
remove_handler_never(handlers) == handlers

\* unregister: the handler is removed if it is in the list.
remove_handler(handlers) ==
    IF HandlerEntry \in Entries(handlers)
    THEN list_remove(handlers, HandlerEntry)
    ELSE handlers

\* register(): load_icons, then register_classes, which raises when the classes are
\* registered already; then the Scene property, the header and the handler.
register(reg, collections, base) ==
    LET loaded == [reg EXCEPT !.previews = @ + 1, !.last = "register"]
    IN  [icons |-> load_icons(collections, base),
         reg |-> IF reg.classes
                 THEN [loaded EXCEPT !.raised = "ValueError"]
                 ELSE [loaded EXCEPT !.raised = "",
                                     !.classes = TRUE,
                                     !.scene_property = TRUE,
                                     !.header = @ + 1,
                                     !.frame_change_pre = append_handler(@)]]

\* unregister(): unload_icons, then del of the Scene property, which raises when it
\* is not there; then the header, the handler and unregister_classes.
unregister(reg, collections) ==
    LET unloaded == [reg EXCEPT !.previews = @ - Cardinality(DOMAIN collections),
                                !.last = "unregister"]
    IN  [icons |-> unload_icons(collections),
         reg |-> IF ~reg.scene_property
                 THEN [unloaded EXCEPT !.raised = "AttributeError"]
                 ELSE [unloaded EXCEPT
                          !.scene_property = FALSE,
                          !.header = IF @ > 0 THEN @ - 1 ELSE 0,
                          !.frame_change_pre = remove_handler(@),
                          !.classes = FALSE,
                          !.raised = IF reg.classes THEN "" ELSE "RuntimeError"]]

\* The host after one register() on a clean host.
AddonRegistered == register(CleanHost(<<>>), <<>>, 1).reg

Register ==
    /\ registration.previews < MaxPreviews
    /\ \E base \in 1..MaxIconBase :
        /\ registration' = register(registration, icon_collections, base).reg
        /\ icon_collections' = register(registration, icon_collections, base).icons
    /\ issued' = <<>>
    /\ ev' = NoEvent
    /\ UNCHANGED <<playback_mode, frame_current, frame_start, frame_end, animtimer, release>>
    /\ held' = (held /\ frame_current' = frame_end')

Unregister ==
    /\ registration' = unregister(registration, icon_collections).reg
    /\ icon_collections' = unregister(registration, icon_collections).icons
    /\ issued' = <<>>
    /\ ev' = NoEvent
    /\ UNCHANGED <<playback_mode, frame_current, frame_start, frame_end, animtimer, release>>
    /\ held' = (held /\ frame_current' = frame_end')

\* The add-on registered: icons loaded, the default mode selected, playback stopped.
Init ==
    /\ \E base \in 1..MaxIconBase : icon_collections = load_icons(<<>>, base)
    /\ playback_mode = get_playback_modes[1].id
    /\ \E r \in Ranges : frame_start = r[1] /\ frame_end = r[2]
    /\ frame_current \in Frames
    /\ animtimer = <<>>
    /\ issued = <<>>
    /\ ev = NoEvent
    /\ held = FALSE
    /\ release = NoRelease
    /\ registration = AddonRegistered

Next ==
    \/ Tick
    \/ Scrub
    \/ TogglePlayback
    \/ CancelPlayback
    \/ SetMode
    \/ SetRange
    \/ LoadIcons
    \/ UnloadIcons

Spec == Init /\ [][Next]_vars

\* Ping-pong round trips: playback started forward from the start frame of a
\* range with frame_start < frame_end, and only the timer steps.
InitPingPong ==
    /\ icon_collections = load_icons(<<>>, 1)
    /\ playback_mode = PBLM_method_ping_pong
    /\ \E s, e \in 0..MaxRoundTripFrame :
          /\ s < e
          /\ frame_start = s
          /\ frame_end = e
          /\ frame_current = s
          /\ animtimer = animation_play([frame |-> s, start |-> s, end |-> e,
                                         timer |-> <<>>], FALSE).timer
    /\ issued = <<>>
    /\ ev = NoEvent
    /\ held = FALSE
    /\ release = NoRelease
    /\ registration = AddonRegistered

NextPingPong == Tick

SpecPingPong == InitPingPong /\ [][NextPingPong]_vars

\* Ping-pong playback on a range with frame_start < frame_end, started in either
\* direction at any frame of the range and left to the timer alone.
InitPingPongWithin ==
    /\ icon_collections = load_icons(<<>>, 1)
    /\ playback_mode = PBLM_method_ping_pong
    /\ \E s, e, f \in 0..MaxRoundTripFrame, reverse \in BOOLEAN :
          /\ s < e
          /\ s <= f /\ f <= e
          /\ frame_start = s
          /\ frame_end = e
          /\ frame_current = f
          /\ animtimer = animation_play([frame |-> f, start |-> s, end |-> e,
                                         timer |-> <<>>], reverse).timer
    /\ issued = <<>>
    /\ ev = NoEvent
    /\ held = FALSE
    /\ release = NoRelease
    /\ registration = AddonRegistered

NextPingPongWithin == Tick

SpecPingPongWithin == InitPingPongWithin /\ [][NextPingPongWithin]_vars

\* Playback in Stop, Restore or Jump-Start mode, started in either direction from any
\* frame, with the mode and the range left alone; the timer keeps stepping while
\* playback runs, and the user may start playback again once it has stopped.
InitPlayOnce ==
    /\ icon_collections = load_icons(<<>>, 1)
    /\ playback_mode \in {PBLM_method_stop, PBLM_method_restore, PBLM_method_start}
    /\ \E r \in Ranges, f \in Frames, reverse \in BOOLEAN :
          /\ frame_start = r[1]
          /\ frame_end = r[2]
          /\ frame_current = f
          /\ animtimer = animation_play([frame |-> f, start |-> r[1], end |-> r[2],
                                         timer |-> <<>>], reverse).timer
    /\ issued = <<>>
    /\ ev = NoEvent
    /\ held = FALSE
    /\ release = NoRelease
    /\ registration = AddonRegistered

StartPlayback ==
    /\ ~is_animation_playing(Host)
    /\ TogglePlayback

NextPlayOnce ==
    \/ Tick
    \/ StartPlayback

SpecPlayOnce == InitPlayOnce /\ [][NextPlayOnce]_vars /\ WF_vars(Tick)

\* The handler on every input: any host state, and any selected identifier,
\* registered or not; the notifications are the only steps.
InitHandler ==
    /\ icon_collections = load_icons(<<>>, 1)
    /\ playback_mode \in ModeIds \cup {StaleId}
    /\ \E r \in Ranges : frame_start = r[1] /\ frame_end = r[2]
    /\ frame_current \in Frames
    /\ animtimer \in {<<>>} \cup
          {<<[reverse |-> reverse, sfra |-> f]>> : reverse \in BOOLEAN, f \in Frames}
    /\ issued = <<>>
    /\ ev = NoEvent
    /\ held = FALSE
    /\ release = NoRelease
    /\ registration = AddonRegistered

NextHandler ==
    \/ Tick
    \/ Scrub

SpecHandler == InitHandler /\ [][NextHandler]_vars

\* A host started without the add-on, other add-ons' handlers subscribed or not, Stop
\* or ping-pong stored in the scene, playback stopped; the add-on is registered and
\* unregistered in any order while the user starts playback and the timer steps.
InitRegister ==
    /\ icon_collections = <<>>
    /\ \E others \in {<<>>, <<OtherEntry>>} : registration = CleanHost(others)
    /\ playback_mode \in {PBLM_method_stop, PBLM_method_ping_pong}
    /\ \E r \in Ranges : frame_start = r[1] /\ frame_end = r[2]
    /\ frame_current = frame_start
    /\ animtimer = <<>>
    /\ issued = <<>>
    /\ ev = NoEvent
    /\ held = FALSE
    /\ release = NoRelease

NextRegister ==
    \/ Register
    \/ Unregister
    \/ Tick
    \/ StartPlayback

SpecRegister == InitRegister /\ [][NextRegister]_vars

(***************************************************************************)
(* release.py: the release run                                             *)
(*                                                                         *)
(* Text is a sequence of one-character strings; a version is a triple of   *)
(* integers; a file of the Releases folder is named by the folder it was   *)
(* built from and the version formatted into its name.                     *)
(***************************************************************************)

\* The run re-prompts at most MaxPrompts times.
MaxPrompts == 3

EXTENSION_FOLDER == "loop_methods"

dev_folder_name == "loop_methods_dev"

Digits == <<"0", "1", "2", "3", "4", "5", "6", "7", "8", "9">>

IsDigit(c) == \E k \in DOMAIN Digits : Digits[k] = c

DigitValue(c) == (CHOOSE k \in DOMAIN Digits : Digits[k] = c) - 1

RECURSIVE lstrip(_)
lstrip(s) == IF s # <<>> /\ Head(s) = " " THEN lstrip(Tail(s)) ELSE s

RECURSIVE rstrip(_)
rstrip(s) ==
    IF s # <<>> /\ s[Len(s)] = " " THEN rstrip(SubSeq(s, 1, Len(s) - 1)) ELSE s

\* str.strip()
strip(s) == rstrip(lstrip(s))

\* str.lower(), on the letters of the prompt's answers
lower(s) ==
    [i \in 1..Len(s) |->
        CASE s[i] = "O" -> "o"
          [] s[i] = "I" -> "i"
          [] s[i] = "C" -> "c"
          [] OTHER -> s[i]]

\* str.split('.')
RECURSIVE split(_)
split(s) ==
    IF \E k \in 1..Len(s) : s[k] = "."
    THEN LET k == CHOOSE i \in 1..Len(s) : s[i] = "." /\ \A j \in 1..(i - 1) : s[j] # "."
         IN  <<SubSeq(s, 1, k - 1)>> \o split(SubSeq(s, k + 1, Len(s)))
    ELSE <<s>>

RECURSIVE DecimalValue(_)
DecimalValue(ds) ==
    IF ds = <<>> THEN 0
    ELSE 10 * DecimalValue(SubSeq(ds, 1, Len(ds) - 1)) + DigitValue(ds[Len(ds)])

\* int(text): surrounding blanks dropped, an optional sign, then one or more digits;
\* anything else raises ValueError.
int(text) ==
    LET t      == strip(text)
        signed == t # <<>> /\ Head(t) \in {"+", "-"}
        ds     == IF signed THEN Tail(t) ELSE t
    IN  IF ds = <<>> \/ \E i \in 1..Len(ds) : ~IsDigit(ds[i])
        THEN [ok |-> FALSE]
        ELSE [ok |-> TRUE,
              value |-> IF signed /\ Head(t) = "-"
                        THEN 0 - DecimalValue(ds) ELSE DecimalValue(ds)]

\* tuple(map(int, new_version.split('.'))) and the length test that follows it
parse_new_version(new_version) ==
    LET parts == split(new_version)
        ints  == [i \in 1..Len(parts) |-> int(parts[i])]
    IN  IF \E i \in 1..Len(parts) : ~ints[i].ok THEN [ok |-> FALSE]
        ELSE IF Len(parts) # 3 THEN [ok |-> FALSE]
        ELSE [ok |-> TRUE, version |-> [i \in 1..3 |-> ints[i].value]]

\* A version the patterns of the readers match: \d+ for each of its three numbers.
matches_digits(version) == \A i \in 1..3 : version[i] >= 0

\* read_version_init: the version of __init__.py, ValueError when the pattern finds none
read_version_init(rel) ==
    IF matches_digits(rel.init_file)
    THEN [ok |-> TRUE, version |-> rel.init_file]
    ELSE [ok |-> FALSE]

\* extension_{folder}_v{X}-{Y}-{Z}.zip
zip_filename(folder, version) == [folder |-> folder, version |-> version]

check_zip_exists(rel, version) ==
    rel.releases_dir /\ zip_filename(EXTENSION_FOLDER, version) \in rel.releases

\* The versions of the non-dev zips of the Releases folder.
get_existing_versions(rel) ==
    IF ~rel.releases_dir THEN {}
    ELSE {f.version : f \in {g \in rel.releases :
                                g.folder = EXTENSION_FOLDER /\ matches_digits(g.version)}}

update_version_files(rel, version) ==
    [rel EXCEPT !.init_file = version, !.toml_file = version]

create_dev_copy(rel) == [rel EXCEPT !.dev_folder = TRUE]

create_zip(rel, version, source_folder) ==
    [rel EXCEPT !.releases_dir = TRUE,
                !.releases = @ \cup {zip_filename(source_folder, version)},
                !.built = Append(@, zip_filename(source_folder, version))]

install_extension(rel, version, is_dev) ==
    LET name == zip_filename(IF is_dev THEN dev_folder_name ELSE EXTENSION_FOLDER, version)
    IN  IF rel.releases_dir /\ name \in rel.releases
        THEN [rel EXCEPT !.installed = Append(@, name)]
        ELSE rel

\* main, from the build step to its end
build_and_install(rel) ==
    LET source_folder == IF rel.dev THEN dev_folder_name ELSE EXTENSION_FOLDER
        copied    == IF rel.dev THEN create_dev_copy(rel) ELSE rel
        zipped    == create_zip(copied, rel.version_init, source_folder)
        installed == IF rel.install
                     THEN install_extension(zipped, rel.version_init, rel.dev)
                     ELSE zipped
    IN  [installed EXCEPT !.pc = "done", !.outcome = "built"]

\* main, the branch of a --dev run before the build step
remove_old_dev_build(rel) ==
    LET no_folder == [rel EXCEPT !.dev_folder = FALSE]
    IN  IF ~rel.releases_dir
        THEN [no_folder EXCEPT !.pc = "done", !.outcome = "FileNotFoundError"]
        ELSE build_and_install(
                 [no_folder EXCEPT !.releases =
                     {f \in @ : ~(f.folder = dev_folder_name /\ matches_digits(f.version))}])

\* main, up to its first prompt or to its end
main(rel) ==
    IF ~rel.blender_found \/ ~rel.extension_found
    THEN [rel EXCEPT !.pc = "done", !.outcome = "not_found"]
    ELSE IF ~read_version_init(rel).ok
    THEN [rel EXCEPT !.pc = "done", !.outcome = "ValueError"]
    ELSE LET read == [rel EXCEPT !.version_init = read_version_init(rel).version]
         IN  IF check_zip_exists(read, read.version_init) /\ ~read.dev
             THEN IF read.version_init \in get_existing_versions(read)
                  THEN [read EXCEPT !.pc = "prompt", !.prompts = 1]
                  ELSE [read EXCEPT !.pc = "done", !.outcome = "ValueError"]
             ELSE IF read.dev THEN remove_old_dev_build(read)
             ELSE build_and_install(read)

prompt_again(rel) == [rel EXCEPT !.pc = "prompt", !.prompts = @ + 1]

\* main, from the answer to the O/I/C prompt to the next prompt or to its end
answer_prompt(rel, raw) ==
    LET response == lower(strip(raw))
    IN  IF response = <<"o">> THEN build_and_install(rel)
        ELSE IF response = <<"i">> THEN [rel EXCEPT !.pc = "new_version"]
        ELSE IF response = <<"c">> THEN [rel EXCEPT !.pc = "done", !.outcome = "canceled"]
        ELSE prompt_again(rel)

\* main, from the answer to "Enter new version" to the next prompt or to its end
enter_new_version(rel, raw) ==
    LET parsed == parse_new_version(strip(raw))
    IN  IF parsed.ok
        THEN build_and_install(
                 [update_version_files(rel, parsed.version)
                     EXCEPT !.version_init = parsed.version])
        ELSE prompt_again(rel)

\* What the user may type at the O/I/C prompt.
Answers ==
    { <<"o">>, <<"O">>, <<"i">>, <<"I">>, <<"c">>, <<" ", "C", " ">>,
      <<"y">>, <<>>, <<"o", "k">> }

\* What the user may type at the version prompt:
\* "1.0.2", " 2.0.0 ", "2.0", "1.x.0", "1.0.2.0", "", "1..2", "1.-1.0"
NewVersions ==
    { <<"1", ".", "0", ".", "2">>,
      <<" ", "2", ".", "0", ".", "0", " ">>,
      <<"2", ".", "0">>,
      <<"1", ".", "x", ".", "0">>,
      <<"1", ".", "0", ".", "2", ".", "0">>,
      <<>>,
      <<"1", ".", ".", "2">>,
      <<"1", ".", "-", "1", ".", "0">> }

\* The versions the version files and the zips start with.
FileVersions == {<<1, 0, 0>>, <<1, 0, 1>>}

ZipNames ==
    {zip_filename(f, v) : f \in {EXTENSION_FOLDER, dev_folder_name}, v \in FileVersions}

RunMain ==
    /\ release.pc = "main"
    /\ release' = [main(release) EXCEPT !.last = [step |-> "main"]]
    /\ UNCHANGED addon_vars

AnswerPrompt ==
    /\ release.pc = "prompt"
    /\ \E raw \in Answers :
        /\ answer_prompt(release, raw).pc = "prompt" => release.prompts < MaxPrompts
        /\ release' = [answer_prompt(release, raw) EXCEPT
                          !.last = [step |-> "answer", raw |-> raw]]
    /\ UNCHANGED addon_vars

EnterNewVersion ==
    /\ release.pc = "new_version"
    /\ \E raw \in NewVersions :
        /\ enter_new_version(release, raw).pc = "prompt" => release.prompts < MaxPrompts
        /\ release' = [enter_new_version(release, raw) EXCEPT
                          !.last = [step |-> "new_version", raw |-> raw]]
    /\ UNCHANGED addon_vars

InitRelease ==
    /\ icon_collections = load_icons(<<>>, 1)
    /\ playback_mode = get_playback_modes[1].id
    /\ frame_start = 0
    /\ frame_end = MaxFrame
    /\ frame_current = 0
    /\ animtimer = <<>>
    /\ issued = <<>>
    /\ ev = NoEvent
    /\ held = FALSE
    /\ registration = AddonRegistered
    /\ \E dev \in BOOLEAN, install \in BOOLEAN, blender_found \in BOOLEAN,
          extension_found \in BOOLEAN, init_file \in FileVersions,
          toml_file \in FileVersions, releases_dir \in BOOLEAN,
          releases \in SUBSET ZipNames, dev_folder \in BOOLEAN :
        /\ ~releases_dir => releases = {}
        /\ release = [pc |-> "main", dev |-> dev, install |-> install,
                      blender_found |-> blender_found,
                      extension_found |-> extension_found,
                      init_file |-> init_file, toml_file |-> toml_file,
                      releases_dir |-> releases_dir, releases |-> releases,
                      dev_folder |-> dev_folder, version_init |-> <<>>,
                      prompts |-> 0, built |-> <<>>, installed |-> <<>>,
                      outcome |-> "", last |-> [step |-> "none"],
                      at_start |-> [init_file |-> init_file, toml_file |-> toml_file,
                                    releases_dir |-> releases_dir,
                                    releases |-> releases]]

NextRelease ==
    \/ RunMain
    \/ AnswerPrompt
    \/ EnterNewVersion

SpecRelease == InitRelease /\ [][NextRelease]_vars

(***************************************************************************)
(* Properties                                                              *)
(***************************************************************************)

\* The last step was a notification.
Notified == ev.kind \in {"tick", "scrub"}

\* The last step was a notification delivered while playback was running.
SawPlaying == Notified /\ ev.timer # <<>>

\* The last step was a notification delivered while playback was stopped.
SawIdle == Notified /\ ev.timer = <<>>

NumCancels(cmds) ==
    Cardinality({i \in DOMAIN cmds : cmds[i].op = "animation_cancel"})

\* C1 as stated: in every mode but ping-pong, a notification at frame_end during
\* playback issues exactly one cancel, and no further cancel is issued in such a
\* mode until frame_current has left frame_end and come back.
C1_OncePerCrossing ==
    [][Notified' =>
        /\ (ev'.timer # <<>> /\ ev'.mode # PBLM_method_ping_pong /\ ev'.frame = ev'.end)
               => NumCancels(issued') = 1
        /\ (ev'.mode # PBLM_method_ping_pong /\ NumCancels(issued') > 0)
               => ~held]_vars

\* C1 as amended: in stop, restore and start mode, a notification at frame_end
\* during playback issues exactly one cancel and leaves playback stopped; and a
\* notification issues a cancel only if playback was running before it, so no
\* further cancel follows until playback has been started again.
C1_OncePerPlayback ==
    [][Notified' =>
        /\ (/\ ev'.timer # <<>>
            /\ ev'.mode \in {PBLM_method_stop, PBLM_method_restore, PBLM_method_start}
            /\ ev'.frame = ev'.end)
               => (NumCancels(issued') = 1 /\ animtimer' = <<>>)
        /\ NumCancels(issued') > 0 => animtimer # <<>>]_vars

\* Playback was cancelled at the end frame in stop mode; stopped, the frame is
\* set to the end frame again and nothing is issued.
C1_Witness ==
    /\ held
    /\ SawIdle
    /\ ev.mode = PBLM_method_stop
    /\ ev.frame = ev.end
    /\ NumCancels(issued) = 0

\* The second half of C1 as stated, alone.
C1_NoCancelWhileHeld ==
    [][(Notified' /\ ev'.mode # PBLM_method_ping_pong /\ NumCancels(issued') > 0)
          => ~held]_vars

\* C2 (idle filter): a notification delivered while playback is stopped, in any
\* mode, range and frame, issues no command and leaves frame, range, mode and
\* the (absent) timer as the notification found them.
C2_IdleFilter ==
    SawIdle =>
        /\ issued = <<>>
        /\ animtimer = <<>>
        /\ frame_current = ev.frame
        /\ frame_start = ev.start
        /\ frame_end = ev.end
        /\ playback_mode = ev.mode

\* Stopped, the user scrubs onto the end frame in stop mode.
C2_Witness ==
    /\ SawIdle
    /\ ev.kind = "scrub"
    /\ ev.mode = PBLM_method_stop
    /\ ev.frame = ev.end
    /\ issued = <<>>

\* C3 (ping-pong policy): playing in ping-pong mode with frame_start < frame_end,
\* a notification at frame_end issues cancel(restore_frame=False) then
\* play(reverse=True), one at frame_start issues cancel(restore_frame=False)
\* then play(reverse=False); cancel comes first.
C3_PingPongPolicy ==
    (SawPlaying /\ ev.mode = PBLM_method_ping_pong /\ ev.start < ev.end) =>
        /\ ev.frame = ev.end => issued = <<Cancel(FALSE), Play(TRUE)>>
        /\ ev.frame = ev.start => issued = <<Cancel(FALSE), Play(FALSE)>>

\* Playback in reverse steps onto the start frame in ping-pong mode.
C3_Witness ==
    /\ SawPlaying
    /\ ev.kind = "tick"
    /\ ev.mode = PBLM_method_ping_pong
    /\ ev.start < ev.end
    /\ ev.frame = ev.start
    /\ issued = <<Cancel(FALSE), Play(FALSE)>>

\* C6 (stop and jump to start): playing in that mode, the notification at
\* frame_end issues cancel(restore_frame=False) then frame_current = frame_start,
\* both in that notification, and leaves playback stopped on the start frame;
\* a notification at any other frame issues nothing.
C6_JumpStart ==
    (SawPlaying /\ ev.mode = PBLM_method_start) =>
        IF ev.frame = ev.end
        THEN /\ issued = <<Cancel(FALSE), SetFrame(ev.start)>>
             /\ animtimer = <<>>
             /\ frame_current = ev.start
             /\ frame_start = ev.start
        ELSE issued = <<>>

\* Playback steps onto the end frame of the range [1, 3] in start mode.
C6_Witness ==
    /\ SawPlaying
    /\ ev.kind = "tick"
    /\ ev.mode = PBLM_method_start
    /\ ev.start = 1
    /\ ev.end = 3
    /\ ev.frame = 3
    /\ frame_current = 1
    /\ animtimer = <<>>

\* C7 (stop): playing in stop mode, a notification at frame_end issues
\* cancel(restore_frame=False) and nothing else; playback is then stopped and
\* the frame is still frame_end.
C7_Stop ==
    (SawPlaying /\ ev.mode = PBLM_method_stop /\ ev.frame = ev.end) =>
        /\ issued = <<Cancel(FALSE)>>
        /\ animtimer = <<>>
        /\ frame_current = ev.end
        /\ frame_end = ev.end

\* Playback started elsewhere steps onto the end frame in stop mode.
C7_Witness ==
    /\ SawPlaying
    /\ ev.kind = "tick"
    /\ ev.mode = PBLM_method_stop
    /\ ev.frame = ev.end
    /\ ev.timer[1].sfra # ev.end
    /\ animtimer = <<>>

\* C8 (stop and restore): playing in restore mode, a notification at frame_end
\* issues cancel(restore_frame=True) and nothing else; playback is then stopped
\* and the frame is the one the running timer recorded when playback started.
C8_Restore ==
    (SawPlaying /\ ev.mode = PBLM_method_restore /\ ev.frame = ev.end) =>
        /\ issued = <<Cancel(TRUE)>>
        /\ animtimer = <<>>
        /\ frame_current = ev.timer[1].sfra

\* Playback started away from the end frame steps onto it in restore mode.
C8_Witness ==
    /\ SawPlaying
    /\ ev.kind = "tick"
    /\ ev.mode = PBLM_method_restore
    /\ ev.frame = ev.end
    /\ ev.timer[1].sfra # ev.end
    /\ frame_current = ev.timer[1].sfra

\* C4 (ping-pong round trip, under SpecPingPong): playback goes on after every
\* notification; a notification at frame_end finds playback going forward and
\* leaves it in reverse, one at frame_start finds it in reverse and leaves it
\* going forward, and one at any other frame leaves the direction as it was.
C4_RoundTrip ==
    Notified =>
        /\ animtimer # <<>>
        /\ IF ev.frame = ev.end
           THEN ~ev.timer[1].reverse /\ animtimer[1].reverse
           ELSE IF ev.frame = ev.start
           THEN ev.timer[1].reverse /\ ~animtimer[1].reverse
           ELSE animtimer[1].reverse = ev.timer[1].reverse

\* Playback that turned round at the end frame of [1, 4] comes back to the
\* start frame and turns forward again.
C4_Witness ==
    /\ Notified
    /\ ev.start = 1
    /\ ev.end = 4
    /\ ev.frame = ev.start
    /\ ev.timer = <<[reverse |-> TRUE, sfra |-> 4]>>
    /\ animtimer = <<[reverse |-> FALSE, sfra |-> 1]>>

\* C5 as stated: playing in ping-pong mode on a range with frame_start =
\* frame_end, a notification at that frame issues one cancel(restore_frame=False)
\* and no play, and leaves playback stopped.
C5_DegenerateRange ==
    (/\ SawPlaying
     /\ ev.mode = PBLM_method_ping_pong
     /\ ev.start = ev.end
     /\ ev.frame = ev.end)
        => (issued = <<Cancel(FALSE)>> /\ animtimer = <<>>)

\* C9 as stated: a notification that directly follows one at the same, unchanged
\* frame_current = frame_end under the same mode issues no command.
C9_Idempotence ==
    [][(/\ Notified
        /\ ev.frame = ev.end
        /\ frame_current = ev.frame
        /\ frame_end = ev.end
        /\ Notified'
        /\ ev'.frame = ev.frame
        /\ ev'.end = ev.end
        /\ ev'.mode = ev.mode)
          => issued' = <<>>]_vars

\* C10 (no-op modes, under SpecHandler): with the standard loop selected, or an
\* identifier that is no registered mode, a notification at any frame, during
\* playback or not, issues no command and leaves timer and frame alone.
C10_NoOpModes ==
    (Notified /\ (ev.mode = PBLM_method_Loop \/ ev.mode \notin ModeIds)) =>
        /\ issued = <<>>
        /\ animtimer = ev.timer
        /\ frame_current = ev.frame

\* Playback steps onto the end frame while the selection is no registered mode.
C10_Witness ==
    /\ SawPlaying
    /\ ev.kind = "tick"
    /\ ev.mode \notin ModeIds
    /\ ev.frame = ev.end
    /\ ev.start < ev.end
    /\ issued = <<>>

\* The last step was an assignment to playback_mode.
Selected == ev.kind = "set_mode"

LowestMode ==
    CHOOSE i \in DOMAIN get_playback_modes :
        \A j \in DOMAIN get_playback_modes :
            get_playback_modes[i].index <= get_playback_modes[j].index

\* C12 (selection always registered): the selection starts as the mode with the
\* lowest sort index, the standard loop, and is a registered mode in every
\* reachable state.
C12_ModeRegistered ==
    /\ playback_mode = get_playback_modes[LowestMode].id
    /\ playback_mode = PBLM_method_Loop
    /\ [](playback_mode \in ModeIds)

\* During playback in ping-pong mode an unregistered identifier was assigned,
\* and the selection is still ping-pong.
C12_Witness ==
    /\ Selected
    /\ ev.id = StaleId
    /\ animtimer # <<>>
    /\ playback_mode = PBLM_method_ping_pong

\* An item without its icon.
WithoutIcon(item) ==
    [id |-> item.id, name |-> item.name, description |-> item.description,
     index |-> item.index]

\* A catalog without its icons.
WithoutIcons(modes) == [i \in DOMAIN modes |-> WithoutIcon(modes[i])]

\* C13 (catalog stability): after a load or unload of the icons the catalog is
\* not empty, is in ascending order of sort index, starts with the standard loop
\* at index 0, and equals the catalog before the step in everything but the
\* icons, which are "" exactly when no icons are loaded.
C13_CatalogStable ==
    [][icon_collections' # icon_collections =>
        /\ get_playback_modes' # <<>>
        /\ \A i, j \in DOMAIN get_playback_modes' :
              i < j => get_playback_modes'[i].index < get_playback_modes'[j].index
        /\ get_playback_modes'[1].id = PBLM_method_Loop
        /\ get_playback_modes'[1].index = 0
        /\ WithoutIcons(get_playback_modes') = WithoutIcons(get_playback_modes)
        /\ \A i \in DOMAIN get_playback_modes' :
              IF "main" \in DOMAIN icon_collections'
              THEN get_playback_modes'[i].icon \in
                     {icon_collections'["main"][n].icon_id :
                        n \in DOMAIN icon_collections'["main"]}
              ELSE get_playback_modes'[i].icon = ""]_vars

\* The icons were unloaded with a mode other than the default selected; the
\* catalog still lists five modes, without icons.
C13_Witness ==
    /\ icon_collections = <<>>
    /\ ev = NoEvent
    /\ playback_mode = PBLM_method_start
    /\ Len(get_playback_modes) = 5
    /\ get_playback_modes[5].icon = ""

(***************************************************************************)
(* release.py properties                                                   *)
(***************************************************************************)

\* Text of the form X.Y.Z: three parts, each one or more decimal digits.
WellFormedVersion(raw) ==
    LET parts == split(strip(raw))
    IN  /\ Len(parts) = 3
        /\ \A i \in 1..3 : parts[i] # <<>> /\ \A k \in 1..Len(parts[i]) : IsDigit(parts[i][k])

\* The version a well-formed text names.
NamedVersion(raw) == [i \in 1..3 |-> DecimalValue(split(strip(raw))[i])]

VersionFilesUntouched ==
    /\ release.init_file = release.at_start.init_file
    /\ release.toml_file = release.at_start.toml_file

\* The run is past the O/I/C prompt, the last answer being the letter given.
Answered(letter) ==
    /\ release.last.step = "answer"
    /\ lower(strip(release.last.raw)) = <<letter>>

\* C14 (as stated): in a non-dev run that found the zip of the current version, C ends the
\* run with no zip built and no version file modified; O builds the zip of the unchanged
\* current version; I with a well-formed X.Y.Z sets both version files to X.Y.Z and builds
\* the zip named for X.Y.Z; any other answer, and I with a malformed version, changes
\* nothing and prompts again; no zip is built while the prompt is unresolved.
C14_ReleasePrompt ==
    release.prompts > 0 =>
        /\ Answered("c") =>
            release.pc = "done" /\ release.built = <<>> /\ VersionFilesUntouched
        /\ Answered("o") =>
            /\ release.built = <<zip_filename(EXTENSION_FOLDER, release.at_start.init_file)>>
            /\ VersionFilesUntouched
        /\ (release.last.step = "new_version" /\ WellFormedVersion(release.last.raw)) =>
            /\ release.init_file = NamedVersion(release.last.raw)
            /\ release.toml_file = NamedVersion(release.last.raw)
            /\ release.built =
                   <<zip_filename(EXTENSION_FOLDER, NamedVersion(release.last.raw))>>
        /\ (release.last.step = "new_version" /\ ~WellFormedVersion(release.last.raw)) =>
            release.pc = "prompt" /\ release.built = <<>> /\ VersionFilesUntouched
        /\ (release.last.step = "answer" /\ lower(strip(release.last.raw)) \notin
                {<<"o">>, <<"i">>, <<"c">>}) =>
            release.pc = "prompt" /\ release.built = <<>> /\ VersionFilesUntouched
        /\ release.pc \in {"prompt", "new_version"} => release.built = <<>>

\* A version text with a signed number in it.
HasSign(raw) == \E k \in 1..Len(raw) : raw[k] \in {"+", "-"}

\* The prompt behaves as C14 states on every answer but a version with a signed number.
C14_ReleasePromptUnsigned ==
    (release.prompts > 0 /\ ~(release.last.step = "new_version" /\ HasSign(release.last.raw)))
        => C14_ReleasePrompt

\* Once the prompt was shown, __init__.py holds a version read_version_init reads back.
C14_VersionFileReadable == release.prompts > 0 => read_version_init(release).ok

(***************************************************************************)
(* Re-entrancy                                                             *)
(***************************************************************************)

C16_ExactBoundary ==
    (SawPlaying /\ issued # <<>>) =>
        /\ ev.mode \in {PBLM_method_stop, PBLM_method_restore, PBLM_method_start}
               => ev.frame = ev.end
        /\ ev.mode = PBLM_method_ping_pong => ev.frame \in {ev.start, ev.end}

\* Playback in Restore mode was notified of a frame past frame_end and issued nothing.
C16_Witness ==
    /\ SawPlaying
    /\ ev.mode = PBLM_method_restore
    /\ ev.start < ev.end
    /\ ev.frame > ev.end
    /\ issued = <<>>

(***************************************************************************)
(* Mode changes between notifications                                      *)
(***************************************************************************)

\* What each mode asks of the transport at a frame of a range.
ModePolicy(mode, frame, start, end) ==
    CASE mode = PBLM_method_stop /\ frame = end -> <<Cancel(FALSE)>>
      [] mode = PBLM_method_restore /\ frame = end -> <<Cancel(TRUE)>>
      [] mode = PBLM_method_start /\ frame = end -> <<Cancel(FALSE), SetFrame(start)>>
      [] mode = PBLM_method_ping_pong /\ frame \in {start, end}
            -> <<Cancel(FALSE), Play(frame = end)>>
      [] OTHER -> <<>>

\* C17: the commands of a notification during playback are those of the policy of
\* playback_mode as it is when the notification arrives, whatever was selected
\* before: a mode selected in the step before already decides them.
C17_ModeAtNotification ==
    [][(Notified' /\ ev'.timer # <<>>) =>
          issued' = ModePolicy(playback_mode, ev'.frame, ev'.start, ev'.end)]_vars

\* During playback Stop was selected in place of another mode, and the very next
\* notification, at frame_end, cancelled without restoring the frame.
C17_Witness ==
    /\ SawPlaying
    /\ ev.changed
    /\ ev.mode = PBLM_method_stop
    /\ ev.frame = ev.end
    /\ issued = <<Cancel(FALSE)>>

(***************************************************************************)
(* Which mode issues which command                                         *)
(***************************************************************************)

\* The commands of the last notification include cmd.
Issued(cmd) == \E i \in DOMAIN issued : issued[i] = cmd

\* C18: animation_play is issued in ping-pong mode only (so only there does the handler
\* turn the direction of playback), frame_current is set in Jump-Start mode only,
\* animation_cancel(restore_frame=True) is issued in Restore mode only, and a notification
\* leaves playback_mode, frame_start and frame_end as they were.
C18_CommandsOfMode ==
    /\ [](Notified =>
            /\ (\E reverse \in BOOLEAN : Issued(Play(reverse)))
                   => ev.mode = PBLM_method_ping_pong
            /\ (\E f \in Frames : Issued(SetFrame(f))) => ev.mode = PBLM_method_start
            /\ Issued(Cancel(TRUE)) => ev.mode = PBLM_method_restore
            /\ (animtimer # <<>> /\ ev.timer # <<>> /\ animtimer # ev.timer)
                   => ev.mode = PBLM_method_ping_pong
            /\ playback_mode = ev.mode /\ frame_start = ev.start /\ frame_end = ev.end)
    /\ [][Notified' =>
            /\ playback_mode' = playback_mode
            /\ frame_start' = frame_start
            /\ frame_end' = frame_end]_vars

\* A ping-pong notification at frame_start turned reverse playback forward, with
\* the mode and the range left as they were.
C18_Witness ==
    /\ SawPlaying
    /\ ev.mode = PBLM_method_ping_pong
    /\ ev.start < ev.end
    /\ ev.frame = ev.start
    /\ ev.timer[1].reverse
    /\ Issued(Play(FALSE))
    /\ ~animtimer[1].reverse
    /\ playback_mode = ev.mode /\ frame_start = ev.start /\ frame_end = ev.end

(***************************************************************************)
(* Ping-pong containment                                                   *)
(***************************************************************************)

\* The step takes the frame from one end of the range to the other by running past
\* the end playback was heading for.
Wraps ==
    /\ animtimer # <<>>
    /\ \/ ~animtimer[1].reverse /\ frame_current = frame_end /\ frame_current' = frame_start
       \/ animtimer[1].reverse /\ frame_current = frame_start /\ frame_current' = frame_end

\* C19 (as stated, under SpecPingPongWithin): ping-pong playback started at any frame
\* of the range stays within frame_start..frame_end, never wraps from one end of the
\* range to the other, and is still playing after every notification.
C19_Containment ==
    [][/\ frame_start <= frame_current' /\ frame_current' <= frame_end
       /\ ~Wraps
       /\ animtimer' # <<>>]_vars

\* Playback was started on the end of the range it is heading for.
StartedOnBoundary ==
    /\ ev = NoEvent
    /\ \/ ~animtimer[1].reverse /\ frame_current = frame_end
       \/ animtimer[1].reverse /\ frame_current = frame_start

\* Containment holds on every step but the first one of playback started on the end of
\* the range it is heading for.
C19_ContainmentOffBoundary ==
    [][~StartedOnBoundary =>
          /\ frame_start <= frame_current' /\ frame_current' <= frame_end
          /\ ~Wraps
          /\ animtimer' # <<>>]_vars

\* Playback stays in the range and goes on, also when it was started on a boundary.
C19_InRangeAndPlaying ==
    /\ frame_start <= frame_current /\ frame_current <= frame_end
    /\ animtimer # <<>>

(***************************************************************************)
(* Play-once liveness                                                      *)
(***************************************************************************)

\* Playback was stopped by the handler's cancel at a timer step that reached frame_end.
StoppedAtEnd ==
    /\ animtimer = <<>>
    /\ ev.kind = "tick"
    /\ ev.frame = ev.end
    /\ NumCancels(issued) = 1

\* C20 (under SpecPlayOnce): in Stop, Restore and Jump-Start mode, playback started in
\* either direction from any frame is eventually stopped by the handler's cancel at
\* the timer step that reaches frame_end, and once stopped no timer step is notified
\* until playback is started again.
C20_PlayOnce ==
    /\ (animtimer # <<>>) ~> StoppedAtEnd
    /\ [][animtimer = <<>> => (ev'.kind # "tick" /\ animtimer' # <<>>)]_vars

\* Reverse playback started below frame_start wrapped to frame_end and was stopped there.
C20_Witness ==
    /\ StoppedAtEnd
    /\ ev.start < ev.end
    /\ ev.timer[1].reverse
    /\ ev.timer[1].sfra < ev.start

(***************************************************************************)
(* Handler subscription                                                    *)
(***************************************************************************)

\* How often the handler is in the frame_change_pre list.
Subscriptions ==
    Cardinality({i \in DOMAIN registration.frame_change_pre :
                    registration.frame_change_pre[i] = HandlerEntry})

\* C21 (under SpecRegister): whatever register() and unregister() calls were made, the
\* handler is in the frame_change_pre list at most once and a notification runs it at
\* most once; after register() it is in the list, after unregister() it is not, and
\* after unregister() icon_collections is empty.
C21_Subscription ==
    /\ Subscriptions <= 1
    /\ Notified => ev.runs <= 1
    /\ registration.last = "register" => Subscriptions = 1
    /\ registration.last = "unregister" => (Subscriptions = 0 /\ icon_collections = <<>>)

\* register() was called twice in a row, the second call raising in register_classes,
\* and the timer step that reached frame_end after it ran the handler once.
C21_Witness ==
    /\ registration.last = "register"
    /\ registration.raised = "ValueError"
    /\ OtherEntry \in Entries(registration.frame_change_pre)
    /\ SawPlaying
    /\ ev.frame = ev.end
    /\ ev.runs = 1
    /\ issued # <<>>

(***************************************************************************)
(* Releases folder                                                         *)
(***************************************************************************)

\* The run is over, it passed the checks of the executable and the extension folder,
\* and the user did not cancel it.
RanToEnd ==
    /\ release.pc = "done"
    /\ release.blender_found /\ release.extension_found
    /\ release.outcome # "canceled"

\* The zips of the Releases folder that are not dev builds.
ReleaseZips(files) == {f \in files : f.folder = EXTENSION_FOLDER}

\* A --dev run keeps every non-dev zip, and what it removed are dev zips.
DevRemovesOnlyDev ==
    (release.dev /\ release.pc = "done") =>
        /\ ReleaseZips(release.at_start.releases) \subseteq release.releases
        /\ \A f \in release.at_start.releases \ release.releases :
               f.folder = dev_folder_name

\* C22 (as stated, under SpecRelease): a run that passes the checks and is not cancelled,
\* standard or --dev, started without a Releases directory, reaches the build step and
\* ends with the Releases directory existing; a --dev run removes only the dev folder
\* and dev zips, never a non-dev zip.
C22_ReleasesCreated ==
    /\ (RanToEnd /\ ~release.at_start.releases_dir) =>
           (release.outcome = "built" /\ release.built # <<>> /\ release.releases_dir)
    /\ DevRemovesOnlyDev

\* The standard run creates the Releases directory when it is missing.
C22_StandardRunCreates ==
    (RanToEnd /\ ~release.dev /\ ~release.at_start.releases_dir) =>
        (release.outcome = "built" /\ release.built # <<>> /\ release.releases_dir)

\* A --dev run started without a Releases directory never builds.
C22_DevRunWithoutReleases ==
    (RanToEnd /\ release.dev /\ ~release.at_start.releases_dir) =>
        (release.outcome = "FileNotFoundError" /\ release.built = <<>>
            /\ ~release.releases_dir)

====
